---------------------------- MODULE Spec2Model ----------------------------
(***************************************************************************)
(* A model of package access (access.go): Uid/Username, access and         *)
(* checkPath.  A path is a sequence of one-character strings, so that the  *)
(* index arithmetic of the walk is the one of the source.  The file        *)
(* system is a finite tree of directories, regular files and symbolic      *)
(* links, and one step of a call is one metadata query (os.Lstat or        *)
(* os.Readlink) together with the code around it.                          *)
(***************************************************************************)
EXTENDS Integers, Sequences, FiniteSets, TLC

VARIABLES
    fs,     \* the file system: canonical node path -> node
    env,    \* what surrounds the calls: injected query faults, tracing, scheduling
    call    \* the calls: call id -> the locals of access/checkPath of that call

vars == <<fs, env, call>>

(***************************************************************************)
(* Bounds of the model.                                                    *)
(***************************************************************************)
\* the longest input path, in components
MaxComps == 2

(***************************************************************************)
(* Strings.                                                                *)
(***************************************************************************)
PathSeparator == "/"

IsPathSeparator(ch) == ch = PathSeparator

\* Go's s[i:j] and s[i] (0-based, half-open)
Sub(s, i, j) == SubSeq(s, i + 1, j)
At(s, i) == s[i + 1]

\* the components of a path: the maximal runs without a separator
RECURSIVE SplitFrom(_, _, _, _)
SplitFrom(p, i, cur, acc) ==
    IF i > Len(p)
    THEN IF cur = <<>> THEN acc ELSE Append(acc, cur)
    ELSE IF IsPathSeparator(p[i])
         THEN SplitFrom(p, i + 1, <<>>, IF cur = <<>> THEN acc ELSE Append(acc, cur))
         ELSE SplitFrom(p, i + 1, Append(cur, p[i]), acc)

Split(p) == SplitFrom(p, 1, <<>>, <<>>)

Dot == <<".">>
DotDot == <<".", ".">>

RECURSIVE JoinComps(_)
JoinComps(cs) ==
    IF cs = <<>> THEN <<>>
    ELSE IF Len(cs) = 1 THEN cs[1]
    ELSE cs[1] \o <<PathSeparator>> \o JoinComps(Tail(cs))

IsAbs(p) == Len(p) > 0 /\ IsPathSeparator(p[1])

Front(s) == SubSeq(s, 1, Len(s) - 1)

(***************************************************************************)
(* filepath.Clean and filepath.Abs, as access calls them on its input      *)
(* (line 161): the lexical clean-up of a rooted path.  Empty and "."       *)
(* components go, a ".." removes the component before it, and a ".." at    *)
(* the root goes.                                                          *)
(***************************************************************************)
RECURSIVE CleanComps(_, _)
CleanComps(cs, out) ==
    IF cs = <<>> THEN out
    ELSE IF Head(cs) = Dot THEN CleanComps(Tail(cs), out)
    ELSE IF Head(cs) = DotDot
         THEN CleanComps(Tail(cs), IF out = <<>> THEN out ELSE Front(out))
         ELSE CleanComps(Tail(cs), Append(out, Head(cs)))

\* Clean of a rooted path
Clean(p) == <<PathSeparator>> \o JoinComps(CleanComps(Split(p), <<>>))

\* the working directory of the process, which Abs joins a relative path to
Cwd == <<"/", "a">>

Abs(p) == IF IsAbs(p) THEN Clean(p) ELSE Clean(Cwd \o <<PathSeparator>> \o p)

(***************************************************************************)
(* The file system and the kernel's path resolution behind os.Lstat and    *)
(* os.Readlink.  A node is named by the sequence of the names that lead to *)
(* it from the root.                                                       *)
(***************************************************************************)
Root == <<>>

Dir(perm, uid, gid) ==
    [kind |-> "dir", perm |-> perm, uid |-> uid, gid |-> gid, target |-> <<>>]
File(perm, uid, gid) ==
    [kind |-> "file", perm |-> perm, uid |-> uid, gid |-> gid, target |-> <<>>]
Link(target) ==
    [kind |-> "link", perm |-> 511, uid |-> 0, gid |-> 0, target |-> target]

\* the symbolic links the kernel follows in one resolution before ELOOP
SymloopMax == 40

KErr(e) == [err |-> e, node |-> Root]
KOk(n) == [err |-> "nil", node |-> n]

\* The walk of the kernel from directory cur through the components cs.
\* followLast: the path ends in a separator, so a final link is followed.
RECURSIVE KWalk(_, _, _, _, _)
KWalk(F, cur, cs, followLast, fuel) ==
    IF cs = <<>> THEN KOk(cur)
    ELSE IF F[cur].kind # "dir" THEN KErr("ENOTDIR")
    ELSE LET c == Head(cs)
             rest == Tail(cs)
             child == Append(cur, c)
         IN  IF c = Dot THEN KWalk(F, cur, rest, followLast, fuel)
             ELSE IF c = DotDot
                  THEN KWalk(F, IF cur = Root THEN Root ELSE Front(cur), rest,
                             followLast, fuel)
             ELSE IF child \notin DOMAIN F THEN KErr("ENOENT")
             ELSE IF F[child].kind = "link" /\ (rest # <<>> \/ followLast)
                  THEN IF fuel = 0 THEN KErr("ELOOP")
                       ELSE LET t == F[child].target
                            IN  IF t = <<>> THEN KErr("ENOENT")
                                ELSE KWalk(F, IF IsAbs(t) THEN Root ELSE cur,
                                           Split(t) \o rest,
                                           followLast \/ IsPathSeparator(t[Len(t)]),
                                           fuel - 1)
             ELSE KWalk(F, child, rest, followLast, fuel)

\* the node a path names, without following a final link (lstat(2))
KResolve(F, p) ==
    IF p = <<>> THEN KErr("ENOENT")
    ELSE LET slash == IsPathSeparator(p[Len(p)])
             r == KWalk(F, Root, Split(p), slash, SymloopMax)
         IN  IF r.err # "nil" THEN r
             ELSE IF slash /\ F[r.node].kind # "dir" THEN KErr("ENOTDIR")
             ELSE r

\* os.Lstat: fi.Mode() is given as its permission bits (Perm) and its type
\* bits (IsDir, ModeSymlink); fi.Sys() as Uid and Gid.
Lstat(F, p) ==
    LET r == KResolve(F, p)
    IN  IF r.err # "nil"
        THEN [err |-> r.err, node |-> Root, Perm |-> 0, IsDir |-> FALSE,
              ModeSymlink |-> FALSE, Uid |-> 0, Gid |-> 0]
        ELSE [err |-> "nil", node |-> r.node, Perm |-> F[r.node].perm,
              IsDir |-> F[r.node].kind = "dir",
              ModeSymlink |-> F[r.node].kind = "link",
              Uid |-> F[r.node].uid, Gid |-> F[r.node].gid]

\* os.Readlink
Readlink(F, p) ==
    LET r == KResolve(F, p)
    IN  IF r.err # "nil" THEN [err |-> r.err, link |-> <<>>]
        ELSE IF F[r.node].kind # "link" THEN [err |-> "EINVAL", link |-> <<>>]
        ELSE [err |-> "nil", link |-> F[r.node].target]

(***************************************************************************)
(* The permission test of checkPath (line 124).                            *)
(***************************************************************************)
Read == 4
Write == 2
Execute == 1

\* a & b
RECURSIVE BitAnd(_, _)
BitAnd(a, b) ==
    IF a = 0 \/ b = 0 THEN 0
    ELSE (a % 2) * (b % 2) + 2 * BitAnd(a \div 2, b \div 2)

\* mode << n
Shl(mode, n) == mode * (2 ^ n)

contains(a, i) == \E k \in 1..Len(a) : a[k] = i

\* the condition of line 124: the check fails
\* the test without the exemption of uid 0
PermDeniedRootToo(uid, gid, mode, fm, sUid, sGid) ==
    /\ BitAnd(fm, mode) # mode
    /\ (BitAnd(fm, Shl(mode, 6)) # Shl(mode, 6) \/ uid # sUid)
    /\ (BitAnd(fm, Shl(mode, 3)) # Shl(mode, 3) \/ ~contains(gid, sGid))

\* the test with the group class left out
PermDeniedNoGroup(uid, gid, mode, fm, sUid, sGid) ==
    /\ uid # 0
    /\ BitAnd(fm, mode) # mode
    /\ (BitAnd(fm, Shl(mode, 6)) # Shl(mode, 6) \/ uid # sUid)

\* the test that never fails
PermDeniedNever(uid, gid, mode, fm, sUid, sGid) == FALSE

PermDenied(uid, gid, mode, fm, sUid, sGid) ==
    /\ uid # 0
    /\ BitAnd(fm, mode) # mode
    /\ (BitAnd(fm, Shl(mode, 6)) # Shl(mode, 6) \/ uid # sUid)
    /\ (BitAnd(fm, Shl(mode, 3)) # Shl(mode, 3) \/ ~contains(gid, sGid))


(***************************************************************************)
(* The index loops of access.                                              *)
(***************************************************************************)
\* lines 178-180: skip the separators from start on
RECURSIVE SkipSeparators(_, _)
SkipSeparators(path, start) ==
    IF start < Len(path) /\ IsPathSeparator(At(path, start))
    THEN SkipSeparators(path, start + 1)
    ELSE start

\* lines 181-184: the end of the component that begins at start
RECURSIVE ScanComponent(_, _)
ScanComponent(path, end) ==
    IF end < Len(path) /\ ~IsPathSeparator(At(path, end))
    THEN ScanComponent(path, end + 1)
    ELSE end

\* lines 199-203 and 272-276: the index of the last separator of dest at or
\* after volLen, or volLen - 1 when there is none
RECURSIVE LastSeparatorFrom(_, _, _)
LastSeparatorFrom(dest, volLen, r) ==
    IF r >= volLen /\ ~IsPathSeparator(At(dest, r))
    THEN LastSeparatorFrom(dest, volLen, r - 1)
    ELSE r

LastSeparator(dest, volLen) == LastSeparatorFrom(dest, volLen, Len(dest) - 1)

\* lines 192-217: dest after a ".." component
BackUp(dest, volLen) ==
    LET r == LastSeparator(dest, volLen)
    IN  IF r < volLen \/ Sub(dest, r + 1, Len(dest)) = DotDot
        THEN (IF Len(dest) > volLen THEN dest \o <<PathSeparator>> ELSE dest)
             \o DotDot
        ELSE Sub(dest, 0, r)

\* a separator added whatever dest ends with
WithSeparatorAlways(dest) == dest \o <<PathSeparator>>

\* lines 222-224: dest with the separator that precedes the next component
WithSeparator(dest) ==
    IF Len(dest) > 0 /\ ~IsPathSeparator(At(dest, Len(dest) - 1))
    THEN dest \o <<PathSeparator>>
    ELSE dest

\* nothing checked before the component is queried
CheckedPrefixNone(dest, l) == <<>>

\* line 232: dest[:l], dest as it was before the component was appended
CheckedPrefix(dest, l) == Sub(dest, 0, l)

\* lines 268-282: dest after a link with a relative target
DropLast(dest, volLen) ==
    LET r == LastSeparator(dest, volLen)
    IN  IF r < volLen THEN Sub(dest, 0, volLen) ELSE Sub(dest, 0, r)

\* lines 137-139: strings.LastIndexFunc(path, separator), -1 when there is none
RECURSIVE LastIndexFrom(_, _)
LastIndexFrom(path, i) ==
    IF i >= 0 /\ ~IsPathSeparator(At(path, i))
    THEN LastIndexFrom(path, i - 1)
    ELSE i

LastIndexSeparator(path) == LastIndexFrom(path, Len(path) - 1)

\* line 253
MaxLinks == 255

\* the bound one too low
TooManyLinksFromBound(linksWalked) == linksWalked >= MaxLinks

TooManyLinks(linksWalked) == linksWalked > MaxLinks

\* the counter left as it is
NextLinksWalkedSame(linksWalked) == linksWalked

\* line 252
NextLinksWalked(linksWalked) == linksWalked + 1

(***************************************************************************)
(* The calls.                                                              *)
(***************************************************************************)
Calls == {1, 2}

NoPermissionError ==
    [File |-> <<>>, FileMode |-> 0, FileUid |-> 0, FileGid |-> 0,
     Uid |-> 0, Gid |-> <<>>, WantMode |-> 0]

\* a call that was never made
IdleCall ==
    [pc |-> "idle", lookup |-> "ok", uid |-> 0, gid |-> <<>>, mode |-> 0,
     input |-> <<>>, path |-> <<>>, volLen |-> 0, dest |-> <<>>, end |-> 0,
     linksWalked |-> 0, cp |-> <<>>, cmode |-> 0, ret |-> "done",
     err |-> "running", perr |-> NoPermissionError, denials |-> 0,
     canceled |-> {}, log |-> <<>>]

\* Uid(uid, mode, path) or Username(name, mode, path), about to look the user up
NewCall(lookup, who, mode, input) ==
    [IdleCall EXCEPT !.pc = "start", !.lookup = lookup, !.uid = who.uid,
                     !.gid = who.gid, !.mode = mode, !.input = input]

Runnable(c) ==
    /\ call[c].pc \notin {"idle", "done"}
    /\ env.sequential => \A d \in Calls : d < c => call[d].pc \in {"idle", "done"}

\* the outcomes of one metadata query: what the file system answers, or, when
\* the environment injects faults, an I/O error
Faults == IF env.faults THEN {FALSE, TRUE} ELSE {FALSE}

\* the trace of the metadata queries of a call: by is the function that made
\* the query, and want the mode that checkPath asks of what it queried
Logged(w, by, op, p, want, e) ==
    IF env.trace
    THEN Append(w.log, [by |-> by, op |-> op, path |-> p, want |-> want, err |-> e])
    ELSE w.log

\* the error noted and the walk carried on
ReturnAndGoOn(w, e) == [w EXCEPT !.err = e]

\* the link counter kept in one place for all the calls
StoreShared(c, w) ==
    [d \in Calls |->
        IF d = c THEN w ELSE [call[d] EXCEPT !.linksWalked = w.linksWalked]]

\* lines 148-176: path, dest, linksWalked, start and end are locals of access,
\* and mode and path of checkPath: a step of a call writes them for that call
Store(c, w) == [call EXCEPT ![c] = w]

\* the outcomes of the lookup of the user (lines 72, 94), of the conversion
\* of its uid (line 98), of the listing of its groups (line 149) and of the
\* conversion of their ids (line 155)
LookupOutcomes ==
    {"ok", "UnknownUserIdError", "UnknownUserError", "GroupIdsError", "NumError"}

\* no failure of the lookup seen
LookupNeverFails(lookup) == FALSE

\* lines 73, 95, 99, 150 and 156: err != nil
LookupFailed(lookup) == lookup # "ok"

\* return err
Return(w, e) == [w EXCEPT !.pc = "done", !.err = e]

\* lines 71-76, 93-102 and 149-176: the user and its groups are looked up, the
\* path is made absolute, and the walk starts at the root
BeginOf(w) ==
    LET path == Abs(w.input)
        volLen == IF 0 < Len(path) /\ IsPathSeparator(At(path, 0)) THEN 1 ELSE 0
    IN  IF LookupFailed(w.lookup) THEN Return(w, w.lookup)
        ELSE [w EXCEPT !.pc = "walk", !.path = path, !.volLen = volLen,
                       !.dest = Sub(path, 0, volLen), !.end = volLen,
                       !.linksWalked = 0]

Begin(c) ==
    /\ Runnable(c)
    /\ call[c].pc = "start"
    /\ call' = Store(c, BeginOf(call[c]))
    /\ UNCHANGED <<fs, env>>

\* the requested mode kept for the parent directories
NextModeKept(mode) == mode

\* line 135: the mode checkPath asks of the parent directories
NextMode(mode) == Execute

\* Execute asked of the resolved path too
FinalModeExecute(mode) == Execute

\* line 287: the mode of the final call of checkPath
FinalMode(mode) == mode

\* History: the component that the ".." at start of w.path cancels, when that
\* ".." comes right after an ordinary component in the text of w.path.  That
\* component is the one appended to w.dest last.
Canceled(w, start) ==
    LET before == Split(Sub(w.path, 0, start))
    IN  IF before # <<>> /\ before[Len(before)] \notin {Dot, DotDot}
        THEN {w.dest}
        ELSE {}

\* lines 177-234 and 286-287: one iteration of the loop of access up to its
\* call of checkPath; when the path is exhausted, the final call of checkPath
WalkOf(w) ==
    LET start == SkipSeparators(w.path, w.end)
        end == ScanComponent(w.path, start)
        comp == Sub(w.path, start, end)
        sep == WithSeparator(w.dest)
    IN  IF ~(w.end < Len(w.path)) \/ end = start
        THEN [w EXCEPT !.pc = "check", !.cp = w.dest,
                       !.cmode = FinalMode(w.mode), !.ret = "done"]
        ELSE IF comp = Dot THEN [w EXCEPT !.end = end]
        ELSE IF comp = DotDot
             THEN [w EXCEPT !.end = end, !.dest = BackUp(w.dest, w.volLen),
                            !.canceled = @ \cup Canceled(w, start)]
        ELSE [w EXCEPT !.end = end, !.dest = sep \o comp, !.pc = "check",
                       !.canceled = @ \ {sep \o comp},
                       !.cp = CheckedPrefix(sep \o comp, Len(sep)),
                       !.cmode = Execute, !.ret = "lstat"]

Walk(c) ==
    /\ Runnable(c)
    /\ call[c].pc = "walk"
    /\ call' = Store(c, WalkOf(call[c]))
    /\ UNCHANGED <<fs, env>>

\* the error made with the mode of the call, not the mode of the check
PermissionErrorOfRequested(w, fi) ==
    [File |-> w.cp, FileMode |-> fi.Perm, FileUid |-> fi.Uid, FileGid |-> fi.Gid,
     Uid |-> w.uid, Gid |-> w.gid, WantMode |-> w.mode]

\* lines 125-133
PermissionErrorOf(w, fi) ==
    [File |-> w.cp, FileMode |-> fi.Perm, FileUid |-> fi.Uid, FileGid |-> fi.Gid,
     Uid |-> w.uid, Gid |-> w.gid, WantMode |-> w.cmode]

\* lines 116-144: one iteration of the loop of checkPath
CheckOf(w, fault) ==
    LET fi == IF fault THEN [Lstat(fs, w.cp) EXCEPT !.err = "EIO"]
              ELSE Lstat(fs, w.cp)
        l == [w EXCEPT !.log = Logged(w, "checkPath", "Lstat", w.cp, w.cmode, fi.err)]
        i == LastIndexSeparator(w.cp)
    IN  IF fi.err # "nil" THEN Return(l, fi.err)
        ELSE IF PermDenied(w.uid, w.gid, w.cmode, fi.Perm, fi.Uid, fi.Gid)
             THEN [Return(l, "PermissionError") EXCEPT
                      !.perr = PermissionErrorOf(w, fi),
                      !.denials = w.denials + 1]
        ELSE IF i < 0 THEN Return(l, "no slash")
        ELSE [l EXCEPT !.cmode = NextMode(w.cmode), !.cp = Sub(w.cp, 0, i)]

Check(c) ==
    /\ Runnable(c)
    /\ call[c].pc = "check"
    /\ Len(call[c].cp) > 0
    /\ \E fault \in Faults : call' = Store(c, CheckOf(call[c], fault))
    /\ UNCHANGED <<fs, env>>

\* lines 116 and 145: the loop of checkPath ends and checkPath returns nil, to
\* line 232 or to line 287
CheckReturnOf(w) ==
    IF w.ret = "lstat" THEN [w EXCEPT !.pc = "lstat"] ELSE Return(w, "nil")

CheckReturn(c) ==
    /\ Runnable(c)
    /\ call[c].pc = "check"
    /\ Len(call[c].cp) = 0
    /\ call' = Store(c, CheckReturnOf(call[c]))
    /\ UNCHANGED <<fs, env>>

\* the test without "more path remains"
NotADirectoryEvenLast(fi, end, path) == ~fi.IsDir

\* line 244
NotADirectory(fi, end, path) == ~fi.IsDir /\ end < Len(path)

\* lines 238-255: the component just appended is queried
LstatDestOf(w, fault) ==
    LET fi == IF fault THEN [Lstat(fs, w.dest) EXCEPT !.err = "EIO"]
              ELSE Lstat(fs, w.dest)
        l == [w EXCEPT !.log = Logged(w, "access", "Lstat", w.dest, 0, fi.err)]
        n == NextLinksWalked(w.linksWalked)
    IN  IF fi.err # "nil" THEN Return(l, fi.err)
        ELSE IF ~fi.ModeSymlink
             THEN IF NotADirectory(fi, w.end, w.path)
                  THEN Return(l, "ENOTDIR")
                  ELSE [l EXCEPT !.pc = "walk"]
        ELSE IF TooManyLinks(n)
             THEN Return([l EXCEPT !.linksWalked = n], "too many links")
        ELSE [l EXCEPT !.linksWalked = n, !.pc = "readlink"]

LstatDest(c) ==
    /\ Runnable(c)
    /\ call[c].pc = "lstat"
    /\ \E fault \in Faults : call' = Store(c, LstatDestOf(call[c], fault))
    /\ UNCHANGED <<fs, env>>

\* line 262
Substitute(link, path, end) == link \o Sub(path, end, Len(path))

\* every target taken from the directory of the link
DestAlwaysRelative(link, dest, volLen) == DropLast(dest, volLen)

\* lines 264-283: dest after the link at dest was read
DestAfterLink(link, dest, volLen) ==
    IF Len(link) > 0 /\ IsPathSeparator(At(link, 0))
    THEN Sub(link, 0, 1)
    ELSE DropLast(dest, volLen)

\* lines 257-283: the link is read and put in front of the rest of the path
ReadlinkDestOf(w, fault) ==
    LET rl == IF fault THEN [err |-> "EIO", link |-> <<>>]
              ELSE Readlink(fs, w.dest)
        l == [w EXCEPT !.log = Logged(w, "access", "Readlink", w.dest, 0, rl.err)]
    IN  IF rl.err # "nil" THEN Return(l, rl.err)
        ELSE [l EXCEPT !.pc = "walk",
                       !.path = Substitute(rl.link, w.path, w.end),
                       !.dest = DestAfterLink(rl.link, w.dest, w.volLen),
                       !.end = IF Len(rl.link) > 0
                                  /\ IsPathSeparator(At(rl.link, 0))
                               THEN 1 ELSE 0]

ReadlinkDest(c) ==
    /\ Runnable(c)
    /\ call[c].pc = "readlink"
    /\ \E fault \in Faults : call' = Store(c, ReadlinkDestOf(call[c], fault))
    /\ UNCHANGED <<fs, env>>

Next ==
    \E c \in Calls :
        Begin(c) \/ Walk(c) \/ Check(c) \/ CheckReturn(c) \/ LstatDest(c)
        \/ ReadlinkDest(c)


(***************************************************************************)
(* The file systems, the principals and the inputs of the checked calls.   *)
(* Files and directories below the root belong to uid 1 and gid 2.         *)
(***************************************************************************)
K1(a) == <<<<a>>>>
K2(a, b) == <<<<a>>, <<b>>>>

Superuser == [uid |-> 0, gid |-> <<0>>]
Owner == [uid |-> 1, gid |-> <<1>>]
Member == [uid |-> 2, gid |-> <<3, 2>>]
Other == [uid |-> 3, gid |-> <<3>>]

Principals == {Superuser, Owner, Member, Other}

Modes == 1..7

\* /a is a directory, /a/b and /f are regular files
TreeFS(rootPerm, aPerm, bPerm) ==
    (Root :> Dir(rootPerm, 0, 0))
    @@ (K1("a") :> Dir(aPerm, 1, 2))
    @@ (K2("a", "b") :> File(bPerm, 1, 2))
    @@ (K1("f") :> File(\o644, 1, 2))

DirPerms == {\o000, \o100, \o010, \o001, \o666}
FilePerms == {\o000, \o400, \o060, \o006, \o420}

TreeFileSystems ==
    {TreeFS(\o755, a, b) : a \in DirPerms, b \in FilePerms}
    \cup {TreeFS(r, \o755, \o644) : r \in {\o750, \o700}}

\* the paths of at most n components over names, absolute or relative
CompSeqs(names, n) == UNION {[1..k -> names] : k \in 0..n}

AbsPaths(names, n) ==
    {<<PathSeparator>> \o JoinComps(cs) : cs \in CompSeqs(names, n)}

RelPaths(names, n) == {JoinComps(cs) : cs \in CompSeqs(names, n)}

\* the empty component gives the doubled and the trailing separators
TreeNames == {<<"a">>, <<"b">>, <<"f">>, Dot, DotDot, <<>>}

Config(F, lookup, who, mode, input) ==
    [fs |-> F, lookup |-> lookup, who |-> who, mode |-> mode, input |-> input]

TreeConfigs ==
    {Config(F, "ok", who, mode, input) :
        F \in TreeFileSystems, who \in Principals, mode \in {1, 4, 6},
        input \in AbsPaths(TreeNames, MaxComps)}

RelConfigs ==
    {Config(TreeFS(\o755, \o100, \o400), "ok", who, mode, input) :
        who \in {Owner, Other}, mode \in {4},
        input \in RelPaths(TreeNames, MaxComps)}

\* links with relative and absolute targets, with ".." in the target
LinkFS(aPerm) ==
    (Root :> Dir(\o755, 0, 0))
    @@ (K1("a") :> Dir(aPerm, 1, 2))
    @@ (K2("a", "b") :> File(\o640, 1, 2))
    @@ (K2("a", "e") :> Dir(\o700, 0, 0))
    @@ (K2("a", "u") :> Link(<<".", ".", "/", "f">>))
    @@ (K2("a", "m") :> Link(<<"/", "f">>))
    @@ (K2("a", "q") :> Link(<<"e", "/", ".", ".", "/", "b">>))
    @@ (K1("f") :> File(\o604, 1, 2))
    @@ (K1("l") :> Link(<<"a">>))
    @@ (K1("d") :> Link(<<"a", "/", ".", ".", "/", "f">>))
    @@ (K1("n") :> Link(<<"f", "/">>))

LinkNames ==
    {<<"a">>, <<"b">>, <<"u">>, <<"m">>, <<"q">>, <<"f">>, <<"l">>, <<"d">>, <<"n">>}

LinkConfigs ==
    {Config(LinkFS(a), "ok", who, mode, input) :
        a \in {\o111, \o100}, who \in {Superuser, Owner, Other}, mode \in {4},
        input \in AbsPaths(LinkNames, MaxComps)}

\* link 1 is ".", link k+1 is "k/k": resolving link k follows 2^k - 1 links;
\* link c is its own target
ChainFS ==
    (Root :> Dir(\o755, 0, 0))
    @@ (K1("t") :> File(\o604, 1, 2))
    @@ (K1("c") :> Link(<<"c">>))
    @@ (K1("1") :> Link(<<".">>))
    @@ (K1("2") :> Link(<<"1", "/", "1">>))
    @@ (K1("3") :> Link(<<"2", "/", "2">>))
    @@ (K1("4") :> Link(<<"3", "/", "3">>))
    @@ (K1("5") :> Link(<<"4", "/", "4">>))
    @@ (K1("6") :> Link(<<"5", "/", "5">>))
    @@ (K1("7") :> Link(<<"6", "/", "6">>))
    @@ (K1("8") :> Link(<<"7", "/", "7">>))

ChainPaths ==
    {<<"/", "8">>, <<"/", "8", "/", "1">>, <<"/", "8", "/", "t">>, <<"/", "c">>}

ChainConfigs ==
    {Config(ChainFS, "ok", who, 4, input) :
        who \in {Superuser, Other}, input \in ChainPaths}

Env(faults, trace) == [faults |-> faults, trace |-> trace, sequential |-> TRUE]

\* one call, of one configuration
InitOf(configs, e) ==
    \E cfg \in configs :
        /\ fs = cfg.fs
        /\ env = e
        /\ call = [c \in Calls |->
                      IF c = 1
                      THEN NewCall(cfg.lookup, cfg.who, cfg.mode, cfg.input)
                      ELSE IdleCall]

Init == InitOf(TreeConfigs \cup RelConfigs \cup LinkConfigs \cup ChainConfigs,
               Env(FALSE, TRUE))

Spec == Init /\ [][Next]_vars


(***************************************************************************)
(* The classic owner/group/other rule, stated on the sets of the bits.     *)
(***************************************************************************)
Bits(n) == {b \in {Read, Write, Execute} : (n \div b) % 2 = 1}

OwnerBits(perm) == Bits((perm \div 64) % 8)
GroupBits(perm) == Bits((perm \div 8) % 8)
OtherBits(perm) == Bits(perm % 8)

Groups(gid) == {gid[k] : k \in 1..Len(gid)}

ClassicGrant(uid, gid, mode, perm, fileUid, fileGid) ==
    \/ Bits(mode) \subseteq OwnerBits(perm) /\ uid = fileUid
    \/ Bits(mode) \subseteq GroupBits(perm) /\ fileGid \in Groups(gid)
    \/ Bits(mode) \subseteq OtherBits(perm)

\* what the code grants: the classic rule, and everything to uid 0
Passes(w, mode, node) ==
    \/ w.uid = 0
    \/ ClassicGrant(w.uid, w.gid, mode, fs[node].perm, fs[node].uid, fs[node].gid)

(***************************************************************************)
(* The single check: the calls that reach one file /t of any permission    *)
(* bits through the link /l, under a root that everybody may search.       *)
(***************************************************************************)
CheckFS(perm) ==
    (Root :> Dir(\o755, 0, 0))
    @@ (K1("t") :> File(perm, 1, 2))
    @@ (K1("l") :> Link(<<"t">>))

CheckConfigs ==
    {Config(CheckFS(perm), "ok", [uid |-> uid, gid |-> gid], mode, <<"/", "l">>) :
        perm \in 0..511, uid \in {0, 1, 2}, gid \in {<<3>>, <<3, 2>>},
        mode \in Modes}

InitCheck == InitOf(CheckConfigs, Env(FALSE, TRUE))

SpecCheck == InitCheck /\ [][Next]_vars

\* C1 as stated: for every uid, uid 0 included, every group list, every mode in
\* 1..7 and every permission bits, the check of the component grants if and
\* only if the classic owner/group/other rule grants, and a refusal is a
\* PermissionError.
C1_NoRootBypass ==
    \A c \in Calls :
        call[c].pc = "done" =>
            LET w == call[c]
                t == K1("t")
            IN  /\ w.err = "nil" <=>
                       ClassicGrant(w.uid, w.gid, w.mode, fs[t].perm, fs[t].uid,
                                    fs[t].gid)
                /\ w.err # "nil" => w.err = "PermissionError"

\* C1 amended: for every uid other than 0 the check grants if and only if the
\* classic rule grants, and a refusal is a PermissionError for the component
\* with the requested mode; for uid 0 the check always grants.
C1_ClassicRuleExceptRoot ==
    \A c \in Calls :
        call[c].pc = "done" =>
            LET w == call[c]
                t == K1("t")
                classic == ClassicGrant(w.uid, w.gid, w.mode, fs[t].perm,
                                        fs[t].uid, fs[t].gid)
            IN  /\ w.err = "nil" <=> (w.uid = 0 \/ classic)
                /\ w.err # "nil" =>
                       /\ w.err = "PermissionError"
                       /\ w.perr.File = <<"/", "t">>
                       /\ w.perr.WantMode = w.mode

\* a call of a member of the file's group, neither its owner nor served by the
\* other bits, that the group bits grant two bits at once
C1_Witness ==
    \E c \in Calls :
        /\ call[c].pc = "done"
        /\ call[c].err = "nil"
        /\ call[c].uid = 2
        /\ call[c].mode = 6
        /\ fs[K1("t")].perm = \o460


(***************************************************************************)
(* The walk.                                                               *)
(***************************************************************************)
\* the directories above a node, the root first
Ancestors(node) == {SubSeq(node, 1, k) : k \in 0..(Len(node) - 1)}

\* the nodes on the way to a node, itself included
OnTheWay(node) == {SubSeq(node, 1, k) : k \in 0..Len(node)}

\* an absolute input without ".", ".." and links that names an existing node:
\* its components are the names that lead to the node from the root
PlainInput(w) ==
    /\ w.lookup = "ok"
    /\ IsAbs(w.input)
    /\ \A k \in 1..Len(Split(w.input)) : Split(w.input)[k] \notin {Dot, DotDot}
    /\ KResolve(fs, w.input).err = "nil"
    /\ KResolve(fs, w.input).node = Split(w.input)
    /\ \A n \in OnTheWay(KResolve(fs, w.input).node) : fs[n].kind # "link"

\* C2: for an existing absolute path without links, "." and "..", the call
\* returns nil if and only if the principal passes the check with the requested
\* mode on the final component and with Execute on every directory above it.
C2_PlainPathGrantedIffChain ==
    \A c \in Calls :
        (call[c].pc = "done" /\ PlainInput(call[c])) =>
            LET w == call[c]
                target == KResolve(fs, w.input).node
            IN  w.err = "nil" <=>
                    /\ Passes(w, w.mode, target)
                    /\ \A d \in Ancestors(target) : Passes(w, Execute, d)

\* a grant to the owner of the file /a/b, below two directories
C2_Witness ==
    \E c \in Calls :
        /\ call[c].pc = "done"
        /\ PlainInput(call[c])
        /\ call[c].err = "nil"
        /\ call[c].uid = 1
        /\ KResolve(fs, call[c].input).node = K2("a", "b")

\* C3: a nil result implies that the principal passes the requested mode on
\* the node the resolved path names and Execute on every directory above that
\* node; and checkPath asks a mode other than Execute only of the resolved
\* path itself, in the final call, never of a directory above it.
C3_ModeOnlyOnTarget ==
    \A c \in Calls :
        LET w == call[c]
            r == KResolve(fs, w.dest)
        IN  /\ (w.pc = "done" /\ w.err = "nil") =>
                   /\ r.err = "nil"
                   /\ fs[r.node].kind # "link"
                   /\ Passes(w, w.mode, r.node)
                   /\ \A d \in Ancestors(r.node) : Passes(w, Execute, d)
            /\ \A i \in 1..Len(w.log) :
                   (w.log[i].by = "checkPath" /\ w.log[i].want # Execute) =>
                       /\ w.log[i].want = w.mode
                       /\ w.log[i].path = w.dest
                       /\ \A j \in 1..Len(w.log) : j < i => w.log[j].want \in {0, Execute}

\* Read granted through a link on a file whose directory gives nobody Read
C3_Witness ==
    \E c \in Calls :
        /\ call[c].pc = "done"
        /\ call[c].err = "nil"
        /\ call[c].uid # 0
        /\ call[c].mode = Read
        /\ call[c].linksWalked > 0
        /\ \E d \in Ancestors(KResolve(fs, call[c].dest).node) :
               d # Root /\ Read \notin (OwnerBits(fs[d].perm) \cup GroupBits(fs[d].perm)
                                        \cup OtherBits(fs[d].perm))


(***************************************************************************)
(* Two calls with the same mode and path on the same file system, one      *)
(* after the other: call 1 of a principal other than uid 0, call 2 of      *)
(* uid 0.                                                                  *)
(***************************************************************************)
PairConfigs ==
    {cfg \in TreeConfigs \cup LinkConfigs \cup ChainConfigs : cfg.who.uid # 0}

InitPair ==
    \E cfg \in PairConfigs :
        /\ fs = cfg.fs
        /\ env = Env(FALSE, TRUE)
        /\ call = [c \in Calls |->
                      NewCall(cfg.lookup, IF c = 1 THEN cfg.who ELSE Superuser,
                              cfg.mode, cfg.input)]

SpecPair == InitPair /\ [][Next]_vars

\* C4: a call of uid 0 never returns a PermissionError, and it makes the same
\* metadata queries, with the same answers, as a call of another principal with
\* the same mode and path that is not refused; what that call returns (nil, the
\* error of a query, ENOTDIR, too many links), the call of uid 0 returns too.
C4_RootQueriesLikeGranted ==
    /\ \A c \in Calls :
           call[c].uid = 0 => call[c].err # "PermissionError" /\ call[c].denials = 0
    /\ \A c, r \in Calls :
           (/\ call[r].uid = 0
            /\ call[c].uid # 0
            /\ call[c].input = call[r].input
            /\ call[c].mode = call[r].mode
            /\ call[c].pc = "done"
            /\ call[r].pc = "done"
            /\ call[c].err # "PermissionError")
           => call[r].log = call[c].log /\ call[r].err = call[c].err

\* both calls done, call 1 granted after a link was read; uid 0 passes a
\* directory that its bits close to it
C4_Witness ==
    /\ call[1].pc = "done"
    /\ call[2].pc = "done"
    /\ call[1].uid # 0
    /\ call[2].uid = 0
    /\ call[1].err = "nil"
    /\ call[2].err = "nil"
    /\ \E i \in 1..Len(call[2].log) : call[2].log[i].op = "Readlink"
    /\ \E i \in 1..Len(call[2].log) :
           /\ call[2].log[i].by = "checkPath"
           /\ call[2].log[i].path = <<"/", "a">>
           /\ fs[K1("a")].perm = \o100


(***************************************************************************)
(* The links followed.                                                     *)
(***************************************************************************)
\* the links a call has read
LinksRead(w) == Cardinality({i \in 1..Len(w.log) : w.log[i].op = "Readlink"})

\* C5: a call follows at most 255 links; a call that meets at most 255 links
\* does not fail with too many links, and a call that meets a 256th link ends
\* there with too many links, without reading that link and never with nil.
C5_AtMost255Links ==
    \A c \in Calls :
        LET w == call[c]
        IN  /\ LinksRead(w) <= 255
            /\ w.linksWalked <= 256
            /\ LinksRead(w) = IF w.pc = "readlink" \/ w.linksWalked = 256
                              THEN w.linksWalked - 1
                              ELSE w.linksWalked
            /\ w.linksWalked = 256 <=> w.err = "too many links"
            /\ w.err = "too many links" => w.pc = "done"
            /\ w.err = "nil" => w.linksWalked <= 255

\* a call granted after exactly 255 links
C5_Witness ==
    \E c \in Calls :
        /\ call[c].pc = "done"
        /\ call[c].err = "nil"
        /\ call[c].linksWalked = 255
        /\ LinksRead(call[c]) = 255


(***************************************************************************)
(* Termination.  A call is sequential code that nothing suspends: a step   *)
(* that can be taken is taken.  The trace of the queries is left out, so    *)
(* that a call that went round a cycle of links is back in the same state. *)
(***************************************************************************)
InitLive ==
    InitOf(RelConfigs \cup ChainConfigs
               \cup {cfg \in LinkConfigs : cfg.who = Other /\ cfg.fs = LinkFS(\o111)},
           Env(FALSE, FALSE))

SpecLive == InitLive /\ [][Next]_vars /\ WF_vars(Next)

Returned(c) == call[c].pc \in {"idle", "done"}

\* C6: every call returns, with nil or an error, whatever the links of the
\* file system: cycles of links, "." and ".." in the targets.
C6_EveryCallReturns == <>(\A c \in Calls : Returned(c))

\* the call on the link that is its own target has returned
C6_Witness ==
    \E c \in Calls :
        /\ call[c].pc = "done"
        /\ call[c].input = <<"/", "c">>
        /\ call[c].err = "too many links"
        /\ fs[K1("c")].target = <<"c">>


(***************************************************************************)
(* Links, components that are no directories, "..".                        *)
(***************************************************************************)
\* what is left of the path to walk
Remaining(w) == Sub(w.path, w.end, Len(w.path))

\* the last query of a call
LastQuery(w) == w.log[Len(w.log)]

NodeOf(p) == KResolve(fs, p).node

\* C7: when the component at dest is a link, the path becomes the target
\* followed by what remained, all of it still to walk; with an absolute target
\* dest becomes the root, with a relative target dest names the directory that
\* holds the link.
C7_LinkSubstitution ==
    [][\A c \in Calls :
          (call[c].pc = "readlink" /\ call'[c].pc = "walk") =>
              LET w == call[c]
                  v == call'[c]
                  link == fs[NodeOf(w.dest)].target
              IN  /\ v.path = link \o Remaining(w)
                  /\ Split(Remaining(v)) = Split(link) \o Split(Remaining(w))
                  /\ IsAbs(link) => v.dest = <<PathSeparator>> /\ NodeOf(v.dest) = Root
                  /\ ~IsAbs(link) =>
                         /\ KResolve(fs, v.dest).err = "nil"
                         /\ NodeOf(v.dest) = Front(NodeOf(w.dest))]_vars

\* the link /a/m, whose target is /f, was read: dest is back at the root
C7_Witness ==
    \E c \in Calls :
        /\ call[c].pc = "walk"
        /\ Len(call[c].log) > 0
        /\ LastQuery(call[c]).op = "Readlink"
        /\ LastQuery(call[c]).path = <<"/", "a", "/", "m">>
        /\ call[c].path = <<"/", "f">>
        /\ call[c].dest = <<"/">>

\* the last query of w is the query by access of a component that is a regular
\* file
FileReached(w) ==
    /\ Len(w.log) > 0
    /\ LastQuery(w).by = "access"
    /\ LastQuery(w).op = "Lstat"
    /\ LastQuery(w).err = "nil"
    /\ fs[NodeOf(LastQuery(w).path)].kind = "file"

\* C8: when a component that is neither a link nor a directory is reached and
\* more path remains (of the input or of a substituted target), the call ends
\* there with ENOTDIR, that query being its last; when no path remains the
\* call goes on.  ENOTDIR is returned in no other case, and only after the
\* directories above passed their checks.
C8_NotADirectory ==
    \A c \in Calls :
        LET w == call[c]
        IN  /\ FileReached(w) =>
                   IF w.end < Len(w.path)
                   THEN w.pc = "done" /\ w.err = "ENOTDIR"
                   ELSE w.pc \in {"walk", "check"} /\ w.err = "running"
            /\ w.err = "ENOTDIR" =>
                   /\ FileReached(w)
                   /\ w.end < Len(w.path)
                   /\ LastQuery(w).path = w.dest
                   /\ \A i \in 1..Len(w.log) : w.log[i].err = "nil"
                   /\ \A d \in Ancestors(NodeOf(w.dest)) : Passes(w, Execute, d)

\* ENOTDIR in the target of a link
C8_Witness ==
    \E c \in Calls :
        /\ call[c].pc = "done"
        /\ call[c].err = "ENOTDIR"
        /\ call[c].linksWalked > 0
        /\ call[c].path # Abs(call[c].input)

\* C9 as stated: a component that a ".." right after it cancels is the object
\* of no metadata query and of no execute check, and no PermissionError names
\* it.
C9_CanceledNeverQueried ==
    \A c \in Calls :
        \A p \in call[c].canceled :
            /\ \A i \in 1..Len(call[c].log) : call[c].log[i].path # p
            /\ call[c].err = "PermissionError" => call[c].perr.File # p

(***************************************************************************)
(* Failures.  The queries may fail with an I/O error.                      *)
(***************************************************************************)
InitFault ==
    InitOf(TreeConfigs \cup RelConfigs \cup LinkConfigs \cup ChainConfigs,
           Env(TRUE, TRUE))

SpecFault == InitFault /\ [][Next]_vars

\* C10: the first failure ends the call and is what the call returns.  A query
\* that failed is the last query and its error is returned as it is, never as
\* a PermissionError; a PermissionError, ENOTDIR and too many links come right
\* after the query that showed them, which is the last; at most one
\* PermissionError is made; a call that has returned does nothing more.
C10_FirstFailureReturned ==
    /\ [](\A c \in Calls :
            LET w == call[c]
            IN  /\ \A i \in 1..Len(w.log) :
                       w.log[i].err # "nil" =>
                           i = Len(w.log) /\ w.pc = "done" /\ w.err = w.log[i].err
                /\ w.err # "running" <=> w.pc = "done"
                /\ w.denials <= 1
                /\ w.denials = 1 <=> w.err = "PermissionError"
                /\ w.err = "PermissionError" =>
                       /\ LastQuery(w).by = "checkPath"
                       /\ LastQuery(w).err = "nil"
                       /\ LastQuery(w).path = w.perr.File
                /\ w.err \in {"ENOTDIR", "too many links"} =>
                       /\ LastQuery(w).by = "access"
                       /\ LastQuery(w).op = "Lstat"
                       /\ LastQuery(w).err = "nil"
                       /\ LastQuery(w).path = w.dest)
    /\ [][\A c \in Calls : call[c].pc = "done" => call'[c] = call[c]]_vars

\* a failure of os.Readlink returned
C10_Witness ==
    \E c \in Calls :
        /\ call[c].pc = "done"
        /\ call[c].err = "EIO"
        /\ LastQuery(call[c]).op = "Readlink"
        /\ Len(call[c].log) > 3


(***************************************************************************)
(* The lookup of the user.  Uid and Username look the user up, access      *)
(* lists its groups and converts their ids, all of it before the first     *)
(* query of the file system.                                               *)
(***************************************************************************)
LookupConfigs ==
    {[cfg EXCEPT !.lookup = l] :
        cfg \in RelConfigs \cup {k \in LinkConfigs : k.fs = LinkFS(\o100)},
        l \in LookupOutcomes}

InitLookup == InitOf(LookupConfigs, Env(FALSE, TRUE))

SpecLookup == InitLookup /\ [][Next]_vars

\* C11: when the lookup of the user fails (unknown uid or name, the groups not
\* listed, an id that is no number), the call returns that error as it is,
\* never a PermissionError, and makes no metadata query; a call whose lookup
\* succeeds returns none of these errors.
C11_LookupFailureReturned ==
    \A c \in Calls :
        LET w == call[c]
        IN  /\ w.lookup # "ok" =>
                   /\ w.pc \in {"start", "done"}
                   /\ w.pc = "done" => w.err = w.lookup
                   /\ w.err \in {"running", w.lookup}
                   /\ w.err # "PermissionError"
                   /\ w.denials = 0
                   /\ w.log = <<>>
            /\ w.lookup = "ok" => w.err \notin LookupOutcomes

\* the groups of the user could not be listed: the call has returned that
\* error, on a path that exists, without a query
C11_Witness ==
    \E c \in Calls :
        /\ call[c].pc = "done"
        /\ call[c].lookup = "GroupIdsError"
        /\ call[c].err = "GroupIdsError"
        /\ call[c].log = <<>>
        /\ Len(Split(call[c].input)) = 2
        /\ KResolve(fs, Abs(call[c].input)).err = "nil"


(***************************************************************************)
(* The PermissionError.                                                    *)
(***************************************************************************)
\* the final call of checkPath (line 287) was made
InFinalCheck(w) == w.lookup = "ok" /\ w.ret = "done" /\ w.pc \in {"check", "done"}

\* C12: a PermissionError names the path of the last query, which is the
\* query of the check that failed, and carries the permission bits, the uid
\* and the gid that query returned, the uid and all the groups of the
\* principal, and the mode that was asked: the requested mode for the
\* resolved path in the final check, Execute for every directory checked on
\* the way.  When the gid of the file is one of the principal's groups, the
\* group bits lack a wanted bit.
C12_PermissionErrorFields ==
    \A c \in Calls :
        LET w == call[c]
            e == w.perr
            fi == Lstat(fs, e.File)
        IN  w.err = "PermissionError" =>
                /\ Len(w.log) > 0
                /\ LastQuery(w).by = "checkPath"
                /\ LastQuery(w).path = e.File
                /\ LastQuery(w).want = e.WantMode
                /\ fi.err = "nil"
                /\ e.FileMode = fi.Perm
                /\ e.FileUid = fi.Uid
                /\ e.FileGid = fi.Gid
                /\ e.Uid = w.uid
                /\ e.Gid = w.gid
                /\ ~Passes(w, e.WantMode, fi.node)
                /\ IF InFinalCheck(w) /\ e.File = w.dest
                   THEN e.WantMode = w.mode
                   ELSE e.WantMode = Execute /\ fi.IsDir
                /\ PlainInput(w) =>
                       LET target == KResolve(fs, w.input).node
                       IN  /\ fi.node \in OnTheWay(target)
                           /\ fi.node = target => e.WantMode = w.mode
                           /\ fi.node # target => e.WantMode = Execute
                /\ e.FileGid \in Groups(e.Gid) =>
                       ~(Bits(e.WantMode) \subseteq GroupBits(e.FileMode))

\* a member of the group of the directory /a, whose group bits lack execute,
\* is refused on /a while asking Read of a file below it
C12_Witness ==
    \E c \in Calls :
        /\ call[c].pc = "done"
        /\ call[c].err = "PermissionError"
        /\ call[c].mode = Read
        /\ call[c].perr.WantMode = Execute
        /\ call[c].perr.FileGid \in Groups(call[c].perr.Gid)
        /\ call[c].perr.FileUid # call[c].perr.Uid
        /\ Execute \notin GroupBits(call[c].perr.FileMode)
        /\ Lstat(fs, call[c].perr.File).node = K1("a")


(***************************************************************************)
(* Links with permission bits of their own, and links whose target climbs  *)
(* above the root.                                                         *)
(***************************************************************************)
\* a symbolic link whose own bits, owner and group were set (lchmod, lchown)
LinkOf(perm, uid, gid, target) ==
    [kind |-> "link", perm |-> perm, uid |-> uid, gid |-> gid, target |-> target]

SymlinkFS(linkPerm) ==
    (Root :> Dir(\o755, 0, 0))
    @@ (K1("a") :> Dir(\o755, 1, 2))
    @@ (K2("a", "b") :> File(\o640, 1, 2))
    @@ (K2("a", "k") :> LinkOf(linkPerm, 1, 2, <<"b">>))
    @@ (K1("l") :> LinkOf(linkPerm, 1, 2, <<"a">>))
    @@ (K1("r") :> LinkOf(linkPerm, 1, 2, <<".", ".", "/", "a">>))
    @@ (K1("s") :> Link(<<"/", ".", ".", "/", "a", "/", "b">>))

SymlinkNames == {<<"a">>, <<"b">>, <<"k">>, <<"l">>, <<"r">>, <<"s">>}

SymlinkConfigs ==
    {Config(SymlinkFS(p), "ok", who, Read, input) :
        p \in {\o777, \o666, \o700, \o000}, who \in {Superuser, Owner, Other},
        input \in AbsPaths(SymlinkNames, MaxComps)}

InitSymlink == InitOf(SymlinkConfigs, Env(FALSE, TRUE))

SpecSymlink == InitSymlink /\ [][Next]_vars

\* C13 as stated: every link that the walk meets gets, where it is met, an
\* Execute check of checkPath on the metadata of the link itself; a link whose
\* own bits, owner and group deny Execute to the principal ends the call with
\* a PermissionError that names the link.
C13_LinkNodeChecked ==
    \A c \in Calls :
        LET w == call[c]
        IN  \A i \in 1..Len(w.log) :
                (/\ w.log[i].by = "access"
                 /\ w.log[i].op = "Lstat"
                 /\ w.log[i].err = "nil"
                 /\ fs[NodeOf(w.log[i].path)].kind = "link")
                => LET link == NodeOf(w.log[i].path)
                   IN  IF Passes(w, Execute, link)
                       THEN \E j \in 1..Len(w.log) :
                                /\ w.log[j].by = "checkPath"
                                /\ w.log[j].want = Execute
                                /\ KResolve(fs, w.log[j].path).err = "nil"
                                /\ NodeOf(w.log[j].path) = link
                       ELSE /\ w.pc = "done"
                            /\ w.err = "PermissionError"
                            /\ NodeOf(w.perr.File) = link

\* the component that the walk is about to take from the path
NextComponent(w) ==
    LET start == SkipSeparators(w.path, w.end)
    IN  Sub(w.path, start, ScanComponent(w.path, start))

NoDots(p) == \A k \in 1..Len(Split(p)) : Split(p)[k] \notin {Dot, DotDot}

\* C14 as stated: every path that checkPath queries, from the resolved prefix
\* it was called with down to its last directory, is absolute and has no "."
\* and no ".." component, whatever the links and their targets.
C14_CheckedPrefixCanonical ==
    \A c \in Calls :
        LET w == call[c]
        IN  /\ (w.pc = "check" /\ w.cp # <<>>) => IsAbs(w.cp) /\ NoDots(w.cp)
            /\ \A i \in 1..Len(w.log) :
                   w.log[i].by = "checkPath" =>
                       IsAbs(w.log[i].path) /\ NoDots(w.log[i].path)

\* C15 as stated: a ".." component taken while the resolved prefix is the
\* root leaves the resolved prefix as it is.
C15_DotDotAtRootNoOp ==
    [][\A c \in Calls :
          (/\ call[c].pc = "walk"
           /\ call'[c] # call[c]
           /\ call[c].end < Len(call[c].path)
           /\ NextComponent(call[c]) = DotDot
           /\ call[c].dest = Sub(call[c].path, 0, call[c].volLen))
          => call'[c].dest = call[c].dest]_vars


(***************************************************************************)
(* The root directory.                                                     *)
(***************************************************************************)
\* C16 as stated: no call of checkPath queries the root directory, and no
\* PermissionError names it, whatever the input path.
C16_RootNeverChecked ==
    \A c \in Calls :
        LET w == call[c]
        IN  /\ \A i \in 1..Len(w.log) :
                   (w.log[i].by = "checkPath" /\ w.log[i].err = "nil") =>
                       NodeOf(w.log[i].path) # Root
            /\ w.err = "PermissionError" => NodeOf(w.perr.File) # Root

\* the mode asked of the root by the first check of a call: the requested
\* mode when the path is the root, Execute when a component follows
RootMode(w) == IF Split(Abs(w.input)) = <<>> THEN w.mode ELSE Execute

\* C16 amended: the root directory is checked like every other directory.
\* The first metadata query of every call whose lookup succeeded is the query
\* by checkPath of the root, with Execute when the path has a component below
\* the root and with the requested mode when the path is the root itself; a
\* call returns nil only if the principal passes that check, and when the
\* principal does not pass it the call makes no other query and returns a
\* PermissionError whose File is the root.
C16_RootCheckedFirst ==
    \A c \in Calls :
        LET w == call[c]
        IN  w.lookup = "ok" =>
                /\ w.pc = "done" => Len(w.log) > 0
                /\ Len(w.log) > 0 =>
                       /\ w.log[1].by = "checkPath"
                       /\ w.log[1].op = "Lstat"
                       /\ w.log[1].path = <<PathSeparator>>
                       /\ w.log[1].want = RootMode(w)
                /\ w.err = "nil" => Passes(w, RootMode(w), Root)
                /\ (w.pc = "done" /\ ~Passes(w, RootMode(w), Root)) =>
                       /\ Len(w.log) = 1
                       /\ w.err = "PermissionError"
                       /\ w.perr.File = <<PathSeparator>>
                       /\ w.perr.WantMode = RootMode(w)

\* a root directory of mode 0700 refuses uid 3 a path below it
C16_Witness ==
    \E c \in Calls :
        /\ call[c].pc = "done"
        /\ call[c].err = "PermissionError"
        /\ call[c].perr.File = <<PathSeparator>>
        /\ call[c].perr.WantMode = Execute
        /\ call[c].uid = 3
        /\ call[c].mode = Read
        /\ fs[Root].perm = \o700
        /\ Split(Abs(call[c].input)) = K2("a", "b")


(***************************************************************************)
(* The order of the check of the directory and the query of the component. *)
(***************************************************************************)
\* dest[:l] of the component at p: p up to its last separator, included
ParentPrefix(p) == Sub(p, 0, LastIndexSeparator(p) + 1)

\* C17: the query by access of a component comes right after the queries of
\* one call of checkPath, with Execute, on the resolved prefix as it was
\* before the component was appended, all of them passed: the principal
\* passes Execute on the directory of the component and on every directory
\* above it.  When a directory is not passed the call ends there with a
\* PermissionError for that directory and Execute, and the component is not
\* queried, whatever it is.
C17_ParentCheckedFirst ==
    \A c \in Calls :
        LET w == call[c]
        IN  /\ \A i \in 1..Len(w.log) :
                   (w.log[i].by = "access" /\ w.log[i].op = "Lstat") =>
                       LET pp == ParentPrefix(w.log[i].path)
                       IN  /\ \E j \in (IF i > Len(pp) THEN i - Len(pp) ELSE 1)..(i - 1) :
                                  /\ w.log[j].path = pp
                                  /\ \A k \in j..(i - 1) :
                                         /\ w.log[k].by = "checkPath"
                                         /\ w.log[k].want = Execute
                                         /\ w.log[k].err = "nil"
                           /\ KResolve(fs, pp).err = "nil"
                           /\ \A n \in OnTheWay(NodeOf(pp)) : Passes(w, Execute, n)
            /\ (w.err = "PermissionError" /\ ~InFinalCheck(w)) =>
                   /\ w.pc = "done"
                   /\ w.perr.WantMode = Execute
                   /\ LastQuery(w).by = "checkPath"
                   /\ Len(w.perr.File) <= Len(ParentPrefix(w.dest))
                   /\ w.perr.File = Sub(w.dest, 0, Len(w.perr.File))
                   /\ ~Passes(w, Execute, NodeOf(w.perr.File))

\* uid 3 may not search /a: the call on a name that /a does not hold returns
\* the PermissionError of /a, not the error of the name
C17_Witness ==
    \E c \in Calls :
        /\ call[c].pc = "done"
        /\ call[c].err = "PermissionError"
        /\ ~InFinalCheck(call[c])
        /\ call[c].uid = 3
        /\ call[c].perr.File = <<"/", "a", "/">>
        /\ Lstat(fs, call[c].dest).err = "ENOENT"
        /\ \A i \in 1..Len(call[c].log) : call[c].log[i].path # call[c].dest


(***************************************************************************)
(* The resolved path of a path that is resolved already.                   *)
(***************************************************************************)
\* an existing absolute input without links, ".", "..", doubled and trailing
\* separators
CanonicalInput(w) ==
    /\ PlainInput(w)
    /\ w.input = <<PathSeparator>> \o JoinComps(Split(w.input))

\* C18: for a canonical input the resolved prefix is at every step the input
\* up to the component reached, no link is counted, and the path handed to
\* the final check is the input itself.
C18_CanonicalPathRoundTrip ==
    \A c \in Calls :
        LET w == call[c]
        IN  CanonicalInput(w) =>
                /\ w.pc \in {"walk", "check", "lstat", "done"} =>
                       /\ w.path = w.input
                       /\ Len(w.dest) <= Len(w.input)
                       /\ w.dest = Sub(w.input, 0, Len(w.dest))
                       /\ w.linksWalked = 0
                /\ InFinalCheck(w) => w.dest = w.input
                /\ (w.pc = "done" /\ w.err = "nil") => w.dest = w.input
                /\ \A i \in 1..Len(w.log) :
                       (w.log[i].by = "checkPath" /\ w.log[i].want # Execute) =>
                           w.log[i].path = w.input

\* the call on /a/b has made its final check, on /a/b
C18_Witness ==
    \E c \in Calls :
        /\ call[c].pc = "done"
        /\ call[c].err = "nil"
        /\ CanonicalInput(call[c])
        /\ call[c].input = <<"/", "a", "/", "b">>
        /\ call[c].dest = <<"/", "a", "/", "b">>
        /\ LastQuery(call[c]).by = "checkPath"


(***************************************************************************)
(* Calls that run at the same time.  Two calls on one file system take     *)
(* their steps in any order, one metadata query at a time.                 *)
(***************************************************************************)
\* the step that a call takes next, when no query fails
StepOf(w) ==
    CASE w.pc = "start" -> BeginOf(w)
      [] w.pc = "walk" -> WalkOf(w)
      [] w.pc = "check" -> IF Len(w.cp) > 0 THEN CheckOf(w, FALSE) ELSE CheckReturnOf(w)
      [] w.pc = "lstat" -> LstatDestOf(w, FALSE)
      [] w.pc = "readlink" -> ReadlinkDestOf(w, FALSE)
      [] OTHER -> w

\* the call run from w to its return, with no other call around
RECURSIVE RunAlone(_)
RunAlone(w) == IF w.pc \in {"idle", "done"} THEN w ELSE RunAlone(StepOf(w))

InterleavedNames == {<<"a">>, <<"b">>, <<"q">>, <<"l">>}

\* the other call: refused on /a through /d, granted through /a/q, ENOTDIR
SecondCalls ==
    {[who |-> Other, mode |-> Read, input |-> <<"/", "d">>],
     [who |-> Owner, mode |-> Read, input |-> <<"/", "a", "/", "q">>],
     [who |-> Superuser, mode |-> Write, input |-> <<"/", "n", "/", "b">>]}

InitInterleaved ==
    \E a \in {\o111, \o100}, who \in {Owner, Other},
       input \in AbsPaths(InterleavedNames, MaxComps), second \in SecondCalls :
        /\ fs = LinkFS(a)
        /\ env = [faults |-> FALSE, trace |-> TRUE, sequential |-> FALSE]
        /\ call = [c \in Calls |->
                      IF c = 1 THEN NewCall("ok", who, Read, input)
                      ELSE NewCall("ok", second.who, second.mode, second.input)]

SpecInterleaved == InitInterleaved /\ [][Next]_vars

\* the call as it was made
AsMade(w) == NewCall(w.lookup, [uid |-> w.uid, gid |-> w.gid], w.mode, w.input)

\* C19: calls that run interleaved share nothing.  A step changes the state of
\* one call only, and changes it as the step of that call alone would; a call
\* that has returned has the result, the resolved path, the link count and the
\* queries of the same call run alone.
C19_CallsIndependent ==
    /\ [](\A c \in Calls :
            call[c].pc = "done" => call[c] = RunAlone(AsMade(call[c])))
    /\ [][\A c \in Calls :
            call'[c] # call[c] =>
                /\ call'[c] = StepOf(call[c])
                /\ \A d \in Calls \ {c} : call'[d] = call[d]]_vars

\* both calls are in the middle of their walks, each after a link it has read,
\* with different link counts
C19_Witness ==
    /\ call[1].pc = "lstat"
    /\ call[2].pc = "check"
    /\ call[1].linksWalked = 2
    /\ call[2].linksWalked = 1
    /\ call[1].dest # call[2].dest
    /\ \E i \in 1..Len(call[1].log) : call[1].log[i].op = "Readlink"
    /\ \E i \in 1..Len(call[2].log) : call[2].log[i].op = "Readlink"


(***************************************************************************)
(* The requested mode.  Two calls of one principal on one path, one after  *)
(* the other, each with a mode of its own.                                 *)
(***************************************************************************)
\* the tree with a link to the file /a/b
ModesFS(aPerm, bPerm) ==
    TreeFS(\o755, aPerm, bPerm) @@ (K1("l") :> Link(<<"a", "/", "b">>))

ModesNames == {<<"a">>, <<"b">>, <<"l">>}

InitModes ==
    \E a \in {\o755, \o100}, b \in {\o060, \o402, \o006},
       who \in {Owner, Member, Other}, input \in AbsPaths(ModesNames, MaxComps),
       m1 \in Modes, m2 \in Modes :
        /\ fs = ModesFS(a, b)
        /\ env = Env(FALSE, TRUE)
        /\ call = [c \in Calls |->
                      NewCall("ok", who, IF c = 1 THEN m1 ELSE m2, input)]

SpecModes == InitModes /\ [][Next]_vars

\* the metadata queries of a call, without the modes asked
Queries(w) ==
    [i \in 1..Len(w.log) |->
        [by |-> w.log[i].by, op |-> w.log[i].op, path |-> w.log[i].path,
         err |-> w.log[i].err]]

\* C20: the requested mode counts in the check of the resolved path only.  Of
\* two calls that differ in the mode only, the queries of one are the first
\* queries of the other; a call that ends before its final check ends the
\* same way, after the same queries, with every mode; the results differ only
\* when one call is refused on the resolved path with its requested mode and
\* the other is granted; and when a mode is granted, so is every mode made of
\* some of its bits.
C20_ModeOnlyInFinalCheck ==
    \A c, d \in Calls :
        LET w == call[c]
            v == call[d]
            n == IF Len(w.log) < Len(v.log) THEN Len(w.log) ELSE Len(v.log)
        IN  (w.pc = "done" /\ v.pc = "done") =>
                /\ SubSeq(Queries(w), 1, n) = SubSeq(Queries(v), 1, n)
                /\ ~InFinalCheck(w) => v = [w EXCEPT !.mode = v.mode]
                /\ InFinalCheck(w) =>
                       /\ InFinalCheck(v)
                       /\ v.dest = w.dest
                       /\ v.linksWalked = w.linksWalked
                       /\ w.err \in {"nil", "PermissionError"}
                       /\ w.err = "PermissionError" =>
                              /\ w.perr.File = w.dest
                              /\ w.perr.WantMode = w.mode
                              /\ Len(w.log) <= Len(v.log)
                /\ (w.err = "nil" /\ Bits(v.mode) \subseteq Bits(w.mode)) =>
                       v.err = "nil"

\* Read and Write together granted by the group bits, and Write alone too,
\* after the same queries
C20_Witness ==
    /\ call[1].pc = "done"
    /\ call[2].pc = "done"
    /\ call[1].mode = 6
    /\ call[2].mode = Write
    /\ call[1].err = "nil"
    /\ call[2].err = "nil"
    /\ call[1].linksWalked = 1
    /\ Queries(call[1]) = Queries(call[2])
    /\ call[1].log # call[2].log

=============================================================================
